---- MODULE Spec2Model ----
\* Model of server.js: the caching reverse proxy for GET /api/traffic/:resource.
\* One request handler per inbound request, a shared node-cache store with a
\* fresh and a ":stale" entry per key, a p-limit limiter in front of fetch, and
\* one abort timer per cache-missing request.
EXTENDS Integers, Sequences, FiniteSets, TLC

\* ---------------------------------------------------------------- bounds
NumReqs == 2            \* inbound requests of one run
FineSteps == 2          \* clock readings taken around each sampled epoch

\* ---------------------------------------------------------------- configuration
CACHETTL == 1           \* fresh TTL, in clock units (line 14)
Concurrency == 1        \* pLimit capacity (line 18)

Reqs == 1..NumReqs

\* The clock readings of a run: the first few units from the start, and the
\* same few one stale TTL later.
Instants == {a + b * (CACHETTL * 10) : a \in 0..FineSteps, b \in 0..1}

\* ---------------------------------------------------------------- JSON values
JNum(n) == [kind |-> "number", val |-> n]
JStr(s) == [kind |-> "string", val |-> s]
JObj(f) == [kind |-> "object", val |-> f]
JArr(s) == [kind |-> "array", val |-> s]
JNull == [kind |-> "null", val |-> 0]
Undefined == [kind |-> "undefined", val |-> 0]

\* JavaScript truthiness, as the tests `if (cached)` and `if (stale)` apply it.
Truthy(v) ==
  CASE v.kind = "undefined" -> FALSE
    [] v.kind = "null" -> FALSE
    [] v.kind = "number" -> v.val # 0
    [] v.kind = "string" -> v.val # ""
    [] v.kind = "boolean" -> v.val
    [] OTHER -> TRUE

\* ---------------------------------------------------------------- whitelist
allowed ==
  { "findCamerasAll", "findCamerasWithinBounds", "findCamerasByRegion", "findCamerasByJourney",
    "findRoadEventsAll", "findRoadEventsWithinBounds", "findRoadEventsByRegion", "findRoadEventsByJourney",
    "findVmsSignsAll", "findVmsSignsWithinBounds", "findVmsSignsByRegion", "findVmsSignsByJourney",
    "findTimSignsAll", "findTimSignsWithinBounds", "findTimSignsByRegion", "findTimSignsByJourney",
    "findRegionsAll", "findRegionsWithinBounds",
    "findWaysAll", "findWaysWithinBounds",
    "findJourneysAll", "findJourneysWithinBounds" }

isSafeResourceAll(name) == TRUE

isSafeResource(name) == name \in allowed

\* ---------------------------------------------------------------- query string and cache key
\* A string is a sequence of characters. A raw query is the sequence of
\* <<name, value>> pairs of the request's query string, already decoded.

\* req.query: one property per name, in order of first appearance; a repeated
\* name collects its values in an array.
RECURSIVE ParseQuery(_)
ParseQuery(raw) ==
  IF raw = <<>> THEN <<>>
  ELSE LET init == ParseQuery(SubSeq(raw, 1, Len(raw) - 1))
           p == raw[Len(raw)]
           idx == {i \in 1..Len(init) : init[i].name = p[1]}
       IN IF idx = {} THEN Append(init, [name |-> p[1], vals |-> <<p[2]>>])
          ELSE LET i == CHOOSE j \in idx : TRUE
               IN [init EXCEPT ![i].vals = Append(@, p[2])]

\* String(value) as URLSearchParams applies it: a string is itself, an array is
\* its elements joined by ",".
RECURSIVE StringOf(_)
StringOf(vals) ==
  IF Len(vals) = 1 THEN vals[1]
  ELSE StringOf(SubSeq(vals, 1, Len(vals) - 1)) \o <<",">> \o vals[Len(vals)]

\* application/x-www-form-urlencoded byte serialisation of one character.
PercentEncodeNone(c) == c

PercentEncode(c) ==
  CASE c = "," -> "%2C"
    [] c = "&" -> "%26"
    [] c = "=" -> "%3D"
    [] c = ":" -> "%3A"
    [] OTHER -> c

FormEncode(s) == [i \in 1..Len(s) |-> PercentEncode(s[i])]

\* new URLSearchParams(req.query).toString()
RECURSIVE Serialize(_)
Serialize(obj) ==
  IF obj = <<>> THEN <<>>
  ELSE LET last == obj[Len(obj)]
           pair == FormEncode(last.name) \o <<"=">> \o FormEncode(StringOf(last.vals))
       IN IF Len(obj) = 1 THEN pair
          ELSE Serialize(SubSeq(obj, 1, Len(obj) - 1)) \o <<"&">> \o pair

QueryString(raw) == Serialize(ParseQuery(raw))

\* `traffic:${resource}:${qs}`
CacheKey(resource, qs) == <<"traffic:", resource, ":">> \o qs

StaleKey(key) == Append(key, ":stale")

NoKey == <<>>

\* ---------------------------------------------------------------- node-cache
\* data maps each stored key to {t: expiry time, v: value}; t = 0 never expires.
Wrap(value, ttl, time) == [t |-> IF ttl = 0 THEN 0 ELSE time + ttl, v |-> value]

Expired(entry, time) == entry.t # 0 /\ entry.t < time

Live(data, key, time) == key \in DOMAIN data /\ ~Expired(data[key], time)

Without(data, key) == [k \in DOMAIN data \ {key} |-> data[k]]

\* cache.get(key): the value of a live entry, else undefined; an expired entry
\* is deleted by the read.
CacheGetValue(data, key, time) ==
  IF Live(data, key, time) THEN data[key].v ELSE Undefined

CacheGetDataTake(data, key, time) ==
  IF key \in DOMAIN data THEN Without(data, key) ELSE data

CacheGetData(data, key, time) ==
  IF key \in DOMAIN data /\ Expired(data[key], time) THEN Without(data, key) ELSE data

\* cache.set(key, value, ttl): insert or overwrite, expiry restarts from now.
CacheSet(data, key, value, ttl, time) ==
  [k \in DOMAIN data \cup {key} |-> IF k = key THEN Wrap(value, ttl, time) ELSE data[k]]

\* ---------------------------------------------------------------- upstream bodies
TextObj == "{\"foo\":1}"
TextZero == "0"
TextMeta == "{\"meta\":1}"
TextPlain == "oops"

BodyTexts == {TextObj, TextZero, TextMeta, TextPlain}

SyntaxError == [kind |-> "SyntaxError", val |-> 0]

\* JSON.parse on the body texts the upstream sends.
ParseJSON(text) ==
  CASE text = TextObj -> JObj("foo" :> JNum(1))
    [] text = TextZero -> JNum(0)
    [] text = TextMeta -> JObj("meta" :> JNum(1))
    [] OTHER -> SyntaxError

\* The body texts the upstream sends under each content type.
BodiesOf(contentType) ==
  IF contentType = "application/json" THEN BodyTexts ELSE {TextPlain}

\* What the upstream may answer: the status and content type of its headers,
\* and a body that either comes to an end with some text or never ends.
Heads ==
  { [status |-> 200, contentType |-> "application/json"],
    [status |-> 200, contentType |-> "text/plain"],
    [status |-> 500, contentType |-> "text/plain"],
    [status |-> 404, contentType |-> "text/plain"] }

Answers ==
  { [status |-> h.status, contentType |-> h.contentType, body |-> "ends", text |-> t] :
      h \in Heads, t \in BodyTexts }
  \cup { [status |-> h.status, contentType |-> h.contentType, body |-> "hangs", text |-> ""] :
      h \in Heads }

RespOk(status) == status >= 200 /\ status <= 299

IsJson(contentType) == contentType = "application/json"

\* typeof data === 'string' ? { raw: data } : data
NormalizeNone(data) == data

Normalize(data) == IF data.kind = "string" THEN JObj("raw" :> data) ELSE data

\* ---------------------------------------------------------------- responses
Response(status, xcache, body) == [status |-> status, xcache |-> xcache, body |-> body]

ErrorBody(message) == JObj("error" :> JStr(message))

Resp400 == Response(400, "none", ErrorBody("Unsupported resource"))

Resp504(message) == Response(504, "none", ErrorBody(message))

\* err.name === 'AbortError' ? 'Upstream timeout' : 'Proxy error'
CatchMessageAny(errName) == "Upstream timeout"

CatchMessage(errName) == IF errName = "AbortError" THEN "Upstream timeout" ELSE "Proxy error"

Warning == JObj("warning" :> JStr("Upstream error, served stale cache"))

\* { ...stale, meta: {...} }: the own enumerable properties of stale, then meta.
Spread(v) ==
  CASE v.kind = "object" -> v.val
    [] v.kind = "array" -> [k \in {ToString(i - 1) : i \in 1..Len(v.val)} |->
                              v.val[CHOOSE i \in 1..Len(v.val) : ToString(i - 1) = k]]
    [] OTHER -> <<>>

StaleBody(stale) ==
  LET own == Spread(stale)
  IN JObj([k \in DOMAIN own \cup {"meta"} |-> IF k = "meta" THEN Warning ELSE own[k]])

\* result.status || 502
StatusOr502Always(status) == 502

StatusOr502(status) == IF status = 0 THEN 502 ELSE status

UpstreamErrorResp(status, text) ==
  Response(StatusOr502(status), "none",
           JObj(("error" :> JStr("Upstream error")) @@ ("detail" :> JStr(text))))

\* ---------------------------------------------------------------- state
VARIABLES
  now,          \* Date.now(), in clock units
  request,      \* per request: its resource and raw query, once handled
  key,          \* per request: the cache key the handler built
  pc,           \* per request: "new", "queued", "fetching", "body", "done"
  timer,        \* per request: the setTimeout of timeoutSignal
  upstream,     \* per request: the upstream's answer while its body is being read
  calls,        \* per request: outbound calls issued
  cacheOps,     \* per request: cache.get / cache.set calls made
  responses,    \* per request: the responses sent to the client
  queue,        \* p-limit: the waiting tasks, first in first out
  activeCount,  \* p-limit: the running tasks
  cache,        \* node-cache: data
  lastMiss      \* per key: value and time of the latest MISS response

vars == <<now, request, key, pc, timer, upstream, calls, cacheOps, responses,
          queue, activeCount, cache, lastMiss>>

NoRequest == [resource |-> "", query |-> <<>>]
NoHeaders == [status |-> 0, contentType |-> "", body |-> "none", text |-> ""]

Init ==
  /\ now = 0
  /\ request = [r \in Reqs |-> NoRequest]
  /\ key = [r \in Reqs |-> NoKey]
  /\ pc = [r \in Reqs |-> "new"]
  /\ timer = [r \in Reqs |-> "none"]
  /\ upstream = [r \in Reqs |-> NoHeaders]
  /\ calls = [r \in Reqs |-> 0]
  /\ cacheOps = [r \in Reqs |-> 0]
  /\ responses = [r \in Reqs |-> <<>>]
  /\ queue = <<>>
  /\ activeCount = 0
  /\ cache = <<>>
  /\ lastMiss = <<>>

\* The part of the state the handler's steps rewrite, as one record.
Here ==
  [pc |-> pc, timer |-> timer, calls |-> calls, cacheOps |-> cacheOps,
   responses |-> responses, queue |-> queue, activeCount |-> activeCount,
   cache |-> cache, lastMiss |-> lastMiss]

Commit(S) ==
  /\ pc' = S.pc
  /\ timer' = S.timer
  /\ calls' = S.calls
  /\ cacheOps' = S.cacheOps
  /\ responses' = S.responses
  /\ queue' = S.queue
  /\ activeCount' = S.activeCount
  /\ cache' = S.cache
  /\ lastMiss' = S.lastMiss

\* res.status(..).json(..): the handler returns.
Send(S, r, resp) ==
  [S EXCEPT !.pc[r] = "done", !.responses[r] = Append(@, resp)]

\* ---------------------------------------------------------------- p-limit
\* A free slot takes the head of the queue. The task calls fetch: with the
\* signal already aborted fetch rejects at once, no call goes out, the handler's
\* catch answers 504 and the slot passes on; otherwise one call is issued.
SlotFreeLoose(S) == S.activeCount <= Concurrency

SlotFree(S) == S.activeCount < Concurrency

RECURSIVE Dequeue(_)
Dequeue(S) ==
  IF ~(SlotFree(S) /\ Len(S.queue) > 0) THEN S
  ELSE LET r == Head(S.queue)
           T == [S EXCEPT !.queue = Tail(@)]
       IN IF S.timer[r] = "fired"
          THEN Dequeue(Send(T, r, Resp504(CatchMessage("AbortError"))))
          ELSE [T EXCEPT !.activeCount = @ + 1, !.pc[r] = "fetching", !.calls[r] = @ + 1]

\* limit(fn): enqueue, then start it if a slot is free.
Enqueue(S, r) == Dequeue([S EXCEPT !.queue = Append(@, r), !.pc[r] = "queued"])

\* next(): the task settled, its slot is released and the queue served.
Release(S) == Dequeue([S EXCEPT !.activeCount = @ - 1])

\* ---------------------------------------------------------------- the handler
\* Lines 42-76, up to `await job`.
HandleStep(S, r, resource, query, time) ==
  IF ~isSafeResource(resource) THEN Send(S, r, Resp400)
  ELSE LET k == CacheKey(resource, QueryString(query))
           cached == CacheGetValue(S.cache, k, time)
           S1 == [S EXCEPT !.cache = CacheGetData(@, k, time), !.cacheOps[r] = @ + 1]
       IN IF Truthy(cached) THEN Send(S1, r, Response(200, "HIT", cached))
          ELSE Enqueue([S1 EXCEPT !.timer[r] = "pending"], r)

Handle(r, resource, query) ==
  /\ pc[r] = "new"
  /\ \A s \in Reqs : s < r => pc[s] # "new"
  /\ request' = [request EXCEPT ![r] = [resource |-> resource, query |-> query]]
  /\ key' = [key EXCEPT ![r] = IF isSafeResource(resource)
                                THEN CacheKey(resource, QueryString(query)) ELSE NoKey]
  /\ Commit(HandleStep(Here, r, resource, query, now))
  /\ UNCHANGED <<now, upstream>>

\* fetch resolves with the response headers; cancel() clears the timer.
HeadersArrive(r, answer) ==
  /\ pc[r] = "fetching"
  /\ answer.body = "ends" => answer.text \in BodiesOf(answer.contentType)
  /\ pc' = [pc EXCEPT ![r] = "body"]
  /\ timer' = [timer EXCEPT ![r] = "cleared"]
  /\ upstream' = [upstream EXCEPT ![r] = answer]
  /\ UNCHANGED <<now, request, key, calls, cacheOps, responses, queue, activeCount, cache, lastMiss>>

\* The task threw (fetch, resp.text() or resp.json() rejected): the limiter
\* releases the slot and the handler's catch answers 504.
ThrownRetry(S, r, errName) ==
  IF S.calls[r] < 2 THEN [S EXCEPT !.calls[r] = @ + 1]
  ELSE Release(Send(S, r, Resp504(CatchMessage(errName))))

ThrownNoRelease(S, r, errName) == Send(S, r, Resp504(CatchMessage(errName)))

Thrown(S, r, errName) == Release(Send(S, r, Resp504(CatchMessage(errName))))

\* fetch rejects with a network failure.
FetchFail(r) ==
  /\ pc[r] = "fetching"
  /\ Commit(Thrown(Here, r, "TypeError"))
  /\ UNCHANGED <<now, request, key, upstream>>

\* The setTimeout callback: controller.abort(). A fetch in flight rejects with
\* AbortError; a task still queued, or a handler already done, only sees the flag.
TimerFire(r) ==
  /\ timer[r] = "pending"
  /\ LET S == [Here EXCEPT !.timer[r] = "fired"]
     IN Commit(IF pc[r] = "fetching" THEN Thrown(S, r, "AbortError") ELSE S)
  /\ UNCHANGED <<now, request, key, upstream>>

\* The body read rejects (connection lost after the headers).
BodyFail(r) ==
  /\ pc[r] = "body"
  /\ upstream[r].body = "ends"
  /\ Commit(Thrown(Here, r, "TypeError"))
  /\ upstream' = [upstream EXCEPT ![r] = NoHeaders]
  /\ UNCHANGED <<now, request, key>>

\* Lines 78-88: the task returned {error: true, status, data}.
ErrorResultRefresh(S, r, status, text, time) ==
  LET sk == StaleKey(key[r])
      stale == CacheGetValue(S.cache, sk, time)
      S1 == [S EXCEPT !.cache = CacheGetData(@, sk, time), !.cacheOps[r] = @ + 1]
  IN IF Truthy(stale)
     THEN Send([S1 EXCEPT !.cache = CacheSet(@, sk, stale, CACHETTL * 10, time)],
               r, Response(200, "STALE", StaleBody(stale)))
     ELSE Send(S1, r, UpstreamErrorResp(status, text))

ErrorResult(S, r, status, text, time) ==
  LET sk == StaleKey(key[r])
      stale == CacheGetValue(S.cache, sk, time)
      S1 == [S EXCEPT !.cache = CacheGetData(@, sk, time), !.cacheOps[r] = @ + 1]
  IN IF Truthy(stale) THEN Send(S1, r, Response(200, "STALE", StaleBody(stale)))
     ELSE Send(S1, r, UpstreamErrorResp(status, text))

\* Lines 90-93: the task returned {error: false, status, data}.
SuccessResultSwapped(S, r, data, time) ==
  LET c1 == CacheSet(S.cache, key[r], data, CACHETTL * 10, time)
      c2 == CacheSet(c1, StaleKey(key[r]), data, CACHETTL, time)
      S1 == [S EXCEPT !.cache = c2, !.cacheOps[r] = @ + 2,
                      !.lastMiss = (key[r] :> [v |-> data, at |-> time]) @@ @]
  IN Send(S1, r, Response(200, "MISS", data))

SuccessResult(S, r, data, time) ==
  LET c1 == CacheSet(S.cache, key[r], data, CACHETTL, time)
      c2 == CacheSet(c1, StaleKey(key[r]), data, CACHETTL * 10, time)
      S1 == [S EXCEPT !.cache = c2, !.cacheOps[r] = @ + 2,
                      !.lastMiss = (key[r] :> [v |-> data, at |-> time]) @@ @]
  IN Send(S1, r, Response(200, "MISS", data))

\* Lines 63-76: the body has been read to its end as `text`.
BodyStep(S, r, time) ==
  LET h == upstream[r]
      text == h.text
  IN IF ~RespOk(h.status) THEN Release(ErrorResult(S, r, h.status, text, time))
     ELSE LET data == IF IsJson(h.contentType) THEN ParseJSON(text) ELSE JStr(text)
          IN IF data = SyntaxError THEN Thrown(S, r, "SyntaxError")
             ELSE Release(SuccessResult(S, r, Normalize(data), time))

BodyDone(r) ==
  /\ pc[r] = "body"
  /\ upstream[r].body = "ends"
  /\ Commit(BodyStep(Here, r, now))
  /\ upstream' = [upstream EXCEPT ![r] = NoHeaders]
  /\ UNCHANGED <<now, request, key>>

\* node-cache's periodic _checkData: expired entries are deleted.
CheckData ==
  /\ \E k \in DOMAIN cache : Expired(cache[k], now)
  /\ cache' = [k \in {j \in DOMAIN cache : ~Expired(cache[j], now)} |-> cache[k]]
  /\ UNCHANGED <<now, request, key, pc, timer, upstream, calls, cacheOps, responses,
                 queue, activeCount, lastMiss>>

\* Time passes, to the next clock reading.
Tick ==
  /\ \E t \in Instants : t > now
  /\ now' = CHOOSE t \in Instants : t > now /\ \A u \in Instants : u > now => t <= u
  /\ UNCHANGED <<request, key, pc, timer, upstream, calls, cacheOps, responses,
                 queue, activeCount, cache, lastMiss>>

\* ---------------------------------------------------------------- requests of a run
QA == <<"a">>
QB == <<"b">>

Inputs ==
  { [resource |-> "findRegionsAll", query |-> <<>>],
    [resource |-> "findRegionsAll", query |-> << <<QA, <<"1">> >> >>],
    [resource |-> "dropEverything", query |-> <<>>] }

Arrive == \E r \in Reqs, i \in Inputs : Handle(r, i.resource, i.query)
Headers == \E r \in Reqs, a \in Answers : HeadersArrive(r, a)
NetworkFail == \E r \in Reqs : FetchFail(r)
Timeout == \E r \in Reqs : TimerFire(r)
BodyLost == \E r \in Reqs : BodyFail(r)
BodyRead == \E r \in Reqs : BodyDone(r)

Next ==
  \/ Arrive
  \/ Headers
  \/ NetworkFail
  \/ Timeout
  \/ BodyLost
  \/ BodyRead
  \/ CheckData
  \/ Tick

Spec == Init /\ [][Next]_vars

\* The event loop runs every timer callback that is due, and a body that ends
\* is read to its end or fails. Nothing obliges the upstream to send headers.
FairSpec ==
  /\ Spec
  /\ \A r \in Reqs : WF_vars(TimerFire(r))
  /\ \A r \in Reqs : WF_vars(BodyDone(r) \/ BodyFail(r))

\* ---------------------------------------------------------------- cache keys alone
\* Two requests over a wider range of query strings; nothing is fetched.
KeyResources == {"findRegionsAll", "findCamerasAll"}
KeyValues == { <<"1">>, <<"1", ",", "1">>, <<"1", "&", "b", "=", "1">> }
KeyPairs == { <<n, v>> : n \in {QA, QB}, v \in KeyValues }
MaxParams == 2
RawQueries == UNION { [1..n -> KeyPairs] : n \in 0..MaxParams }

KeyArrive == \E r \in 1..2, res \in KeyResources, q \in RawQueries : Handle(r, res, q)

KeySpec == Init /\ [][KeyArrive]_vars

\* ---------------------------------------------------------------- shorthands
Handled(r) == pc[r] # "new"
Answered(r) == responses[r] # <<>>
InFlight == {r \in Reqs : pc[r] \in {"fetching", "body"}}
Queued == {queue[i] : i \in 1..Len(queue)}
AnsweredNow(r) == responses[r] = <<>> /\ responses'[r] # <<>>

\* ---------------------------------------------------------------- claims

\* C1: a request for a resource outside the whitelist is answered 400
\* {error: "Unsupported resource"} and, in every state, has issued no upstream
\* call, holds no limiter slot and no place in the queue, has started no timer
\* and has made no cache read or write.
C1_UnsupportedIsRejectedUntouched ==
  \A r \in Reqs :
    (Handled(r) /\ request[r].resource \notin allowed) =>
      /\ pc[r] = "done"
      /\ responses[r] = << [status |-> 400, xcache |-> "none",
                            body |-> JObj("error" :> JStr("Unsupported resource"))] >>
      /\ calls[r] = 0
      /\ r \notin Queued
      /\ timer[r] = "none"
      /\ cacheOps[r] = 0

C1_Witness ==
  \E r, s \in Reqs :
    /\ Handled(r) /\ request[r].resource \notin allowed /\ Answered(r)
    /\ pc[s] = "fetching"

\* C2: the outbound calls in flight (fetch issued, body not yet read, not yet
\* failed) never number more than the limiter's capacity.
C2_InFlightBounded == Cardinality(InFlight) <= Concurrency

C2_Witness == Cardinality(InFlight) = Concurrency /\ Len(queue) >= 1

\* C6: the step that answers a request with X-Cache: HIT issues no upstream
\* call, starts no timer, leaves the limiter's queue and running count, the
\* calls in flight and every cache entry as they were, and makes one cache
\* read and no write.
C6_HitTouchesNothing ==
  [][ \A r \in Reqs :
        (AnsweredNow(r) /\ responses'[r][1].xcache = "HIT") =>
          /\ UNCHANGED <<queue, activeCount, cache, calls, timer>>
          /\ InFlight' = InFlight
          /\ cacheOps'[r] = 1 ]_vars

C6_Witness ==
  \E r \in Reqs :
    /\ Answered(r) /\ responses[r][1].xcache = "HIT"
    /\ Live(cache, key[r], now) /\ cache[key[r]].v = responses[r][1].body

\* C8: when the upstream's non-2xx answer has been read and no live stale
\* entry exists for the request's key, the response carries the upstream's
\* status (502 if it is 0), no X-Cache marker, and the body
\* {error: "Upstream error", detail: <the upstream's body text>}.
C8_UpstreamErrorSurfaced ==
  [][ \A r \in Reqs :
        (BodyDone(r) /\ ~RespOk(upstream[r].status)
           /\ ~Live(cache, StaleKey(key[r]), now)) =>
          responses'[r] =
            << [status |-> IF upstream[r].status = 0 THEN 502 ELSE upstream[r].status,
                xcache |-> "none",
                body |-> JObj(("error" :> JStr("Upstream error"))
                              @@ ("detail" :> JStr(upstream[r].text)))] >> ]_vars

C8_Witness ==
  \E r \in Reqs :
    /\ Answered(r) /\ responses[r][1].status = 404
    /\ responses[r][1].body.val["detail"] = JStr(TextPlain)
    /\ key[r] \in DOMAIN lastMiss /\ Truthy(lastMiss[key[r]].v)

\* C9: a request whose abort timer has fired by the time it is answered is
\* answered 504 {error: "Upstream timeout"}; every other 504 says
\* {error: "Proxy error"}; so "Upstream timeout" is sent exactly when the
\* timer fired.
C9_TimeoutMessageIffTimer ==
  [][ \A r \in Reqs :
        AnsweredNow(r) =>
          LET resp == responses'[r][1]
              timeout == JObj("error" :> JStr("Upstream timeout"))
              proxy == JObj("error" :> JStr("Proxy error"))
          IN /\ timer'[r] = "fired" => (resp.status = 504 /\ resp.body = timeout)
             /\ resp.body = timeout => timer'[r] = "fired"
             /\ (resp.status = 504 /\ timer'[r] # "fired") => resp.body = proxy ]_vars

C9_Witness ==
  \E r, s \in Reqs :
    /\ Answered(r) /\ responses[r][1].body = JObj("error" :> JStr("Upstream timeout"))
    /\ key[r] \notin DOMAIN lastMiss
    /\ Answered(s) /\ responses[s][1].body = JObj("error" :> JStr("Proxy error"))

\* C3: when a request's fetch fails by timeout (the abort timer), by a network
\* failure or by an unparsable declared-JSON body, and a live stale entry
\* exists for its key, the request is answered 200 with X-Cache: STALE.
FetchFailed(r) ==
  /\ AnsweredNow(r)
  /\ \/ pc[r] \in {"queued", "fetching"}
     \/ /\ pc[r] = "body"
        /\ RespOk(upstream[r].status)
        /\ IsJson(upstream[r].contentType)
        /\ ParseJSON(upstream[r].text) = SyntaxError

C3_FailureServesStale ==
  [][ \A r \in Reqs :
        (FetchFailed(r) /\ Live(cache, StaleKey(key[r]), now)) =>
          /\ responses'[r][1].status = 200
          /\ responses'[r][1].xcache = "STALE" ]_vars

\* C4: when the upstream's non-2xx answer has been read and a live stale
\* entry exists for the request's key, whatever value it holds, the request
\* is answered 200 with X-Cache: STALE.
C4_UpstreamErrorServesStale ==
  [][ \A r \in Reqs :
        (BodyDone(r) /\ ~RespOk(upstream[r].status)
           /\ Live(cache, StaleKey(key[r]), now)) =>
          /\ responses'[r][1].status = 200
          /\ responses'[r][1].xcache = "STALE" ]_vars

\* C5: a request handled less than the fresh TTL after the latest MISS
\* response for its key is answered HIT with the value that MISS carried,
\* and issues no upstream call.
C5_HitAfterMiss ==
  [][ \A r \in Reqs :
        (pc[r] = "new" /\ Handled(r)' /\ key'[r] \in DOMAIN lastMiss
           /\ now - lastMiss[key'[r]].at < CACHETTL) =>
          /\ responses'[r] = << [status |-> 200, xcache |-> "HIT",
                                 body |-> lastMiss[key'[r]].v] >>
          /\ calls'[r] = 0 ]_vars

\* C7: every inbound request is eventually answered, and never more than once.
C7_EveryRequestAnswered ==
  /\ [](\A r \in Reqs : Len(responses[r]) <= 1)
  /\ \A r \in Reqs : Handled(r) ~> Answered(r)

\* C10, as amended: two requests with the same resource and the same query
\* parameters in the same order get the same key, and two requests whose
\* parameters are each named once and that differ in the resource or in any
\* parameter name or value get distinct keys.
ParamSet(q) == {q[i] : i \in 1..Len(q)}
NamedOnce(q) == \A i, j \in 1..Len(q) : q[i][1] = q[j][1] => i = j
Keyed(r) == Handled(r) /\ request[r].resource \in allowed

C10_KeyPerOrderedQuery ==
  \A r1, r2 \in Reqs :
    (Keyed(r1) /\ Keyed(r2)) =>
      /\ (request[r1].resource = request[r2].resource
            /\ request[r1].query = request[r2].query) => key[r1] = key[r2]
      /\ (NamedOnce(request[r1].query) /\ NamedOnce(request[r2].query)
            /\ (request[r1].resource # request[r2].resource
                  \/ ParamSet(request[r1].query) # ParamSet(request[r2].query)))
           => key[r1] # key[r2]

C10_Witness ==
  \E r1, r2 \in Reqs :
    /\ Keyed(r1) /\ Keyed(r2)
    /\ request[r1].resource = request[r2].resource
    /\ request[r1].query = << <<QA, <<"1", "&", "b", "=", "1">> >> >>
    /\ request[r2].query = << <<QA, <<"1">> >>, <<QB, <<"1">> >> >>
    /\ key[r1] # key[r2]

\* C10, as claimed, for queries that name each parameter once: the same
\* resource and the same set of query parameters, in any order, give the same
\* key; a different resource or a different parameter name or value gives a
\* different key.
C10_KeyPerParameterSet ==
  \A r1, r2 \in Reqs :
    (Keyed(r1) /\ Keyed(r2)
       /\ NamedOnce(request[r1].query) /\ NamedOnce(request[r2].query)) =>
      /\ (request[r1].resource = request[r2].resource
            /\ ParamSet(request[r1].query) = ParamSet(request[r2].query))
           => key[r1] = key[r2]
      /\ (request[r1].resource # request[r2].resource
            \/ ParamSet(request[r1].query) # ParamSet(request[r2].query))
           => key[r1] # key[r2]

\* C11: over its whole handling a request causes at most one outbound call
\* to the upstream, on every path; a failed call is answered, never reissued.
C11_AtMostOneCall ==
  /\ \A r \in Reqs : calls[r] <= 1
  /\ \A r \in Reqs : Answered(r) => Len(responses[r]) = 1

C11_Witness ==
  /\ \E r \in Reqs : /\ Answered(r) /\ calls[r] = 1
                     /\ responses[r][1].status = 504 /\ timer[r] = "fired"
  /\ \E r \in Reqs : /\ Answered(r) /\ calls[r] = 1
                     /\ responses[r][1] = UpstreamErrorResp(500, TextPlain)

\* C12: a 2xx answer whose content type is not JSON is stored in both tiers
\* and returned as {raw: <text>}, the text unchanged; a later HIT on the key
\* returns the value of the latest MISS, which is that same object.
C12_TextWrappedRaw ==
  [][ \A r \in Reqs :
        /\ (BodyDone(r) /\ RespOk(upstream[r].status) /\ ~IsJson(upstream[r].contentType)) =>
              LET raw == JObj("raw" :> JStr(upstream[r].text))
              IN /\ responses'[r] = <<Response(200, "MISS", raw)>>
                 /\ cache'[key[r]].v = raw
                 /\ cache'[StaleKey(key[r])].v = raw
                 /\ lastMiss'[key[r]].v = raw
        /\ (AnsweredNow(r) /\ responses'[r][1].xcache = "HIT") =>
              /\ key'[r] \in DOMAIN lastMiss
              /\ responses'[r][1].body = lastMiss[key'[r]].v ]_vars

C12_Witness ==
  \E r, s \in Reqs :
    /\ r # s /\ Answered(r) /\ Answered(s)
    /\ responses[r][1] = Response(200, "MISS", JObj("raw" :> JStr(TextPlain)))
    /\ responses[s][1] = Response(200, "HIT", JObj("raw" :> JStr(TextPlain)))

\* C13: the timeout window opens only when the limiter slot is acquired and
\* the call is issued: a request waiting in the queue has no timer running,
\* and a request answered "Upstream timeout" has issued its own call.
C13_TimeoutOnlyAfterCall ==
  /\ \A r \in Reqs : pc[r] = "queued" => timer[r] = "none"
  /\ \A r \in Reqs :
       (Answered(r) /\ responses[r][1] = Resp504("Upstream timeout"))
         => calls[r] = 1

\* C14: however the call settles, the timer is cleared or has fired when the
\* response is sent: no answered request has a timer still pending.
C14_NoTimerAfterAnswer ==
  \A r \in Reqs : Answered(r) => timer[r] # "pending"

\* C15: requests that find the limiter full leave the queue in arrival order,
\* and under fairness every queued request is eventually admitted.
C15_QueueFifoAndServed ==
  /\ [][ /\ \A i, j \in 1..Len(queue) :
              (i < j /\ pc'[queue[j]] # "queued") => pc'[queue[i]] # "queued"
         /\ \A i \in 1..Len(queue) :
              pc'[queue[i]] = "queued" =>
                \E k \in 1..Len(queue') :
                  /\ queue'[k] = queue[i]
                  /\ \A j \in 1..Len(queue) :
                       (i < j /\ pc'[queue[j]] = "queued") =>
                         \E m \in 1..Len(queue') : m > k /\ queue'[m] = queue[j] ]_vars
  /\ \A r \in Reqs : (pc[r] = "queued") ~> (pc[r] # "queued")

\* C16: a task's slot is released exactly once when it ends, by a result or
\* by a throw: the running count is the number of tasks in flight, and once
\* every inbound request is answered the limiter has nothing running or queued.
C16_SlotReleasedOnce ==
  /\ activeCount = Cardinality(InFlight)
  /\ (\A r \in Reqs : Handled(r) => Answered(r)) => (activeCount = 0 /\ queue = <<>>)

C16_Witness ==
  /\ \A r \in Reqs : Answered(r)
  /\ \E r \in Reqs : calls[r] = 1 /\ responses[r][1].status = 504
  /\ \E r \in Reqs : calls[r] = 1 /\ responses[r][1].xcache = "MISS"

\* C17: an entry is created or overwritten only in the step that answers a
\* request MISS after a 2xx fetch, which writes the fresh and the stale entry
\* of that request's key and no other; every other step, whatever it answers,
\* leaves each entry as it was, removing at most entries already expired.
C17_OnlySuccessWrites ==
  [][ /\ \A k \in DOMAIN cache' :
           (k \notin DOMAIN cache \/ cache'[k] # cache[k]) =>
             \E r \in Reqs :
               /\ AnsweredNow(r)
               /\ responses'[r][1].xcache = "MISS"
               /\ k \in {key[r], StaleKey(key[r])}
               /\ cache'[k].v = responses'[r][1].body
      /\ \A k \in DOMAIN cache \ DOMAIN cache' : Expired(cache[k], now')
      /\ \A r \in Reqs :
           (AnsweredNow(r) /\ responses'[r][1].xcache = "MISS") =>
             /\ cache'[key[r]] = Wrap(responses'[r][1].body, CACHETTL, now)
             /\ cache'[StaleKey(key[r])] = Wrap(responses'[r][1].body, CACHETTL * 10, now)
      /\ (\A r \in Reqs : AnsweredNow(r) => responses'[r][1].xcache # "MISS") =>
           \A k \in DOMAIN cache :
             Live(cache, k, now) => (k \in DOMAIN cache' /\ cache'[k] = cache[k])
    ]_vars

C17_Witness ==
  /\ \E r \in Reqs : Answered(r) /\ responses[r][1].xcache = "STALE"
  /\ \E r \in Reqs : Answered(r) /\ responses[r][1].xcache = "MISS"
                     /\ Live(cache, StaleKey(key[r]), now)
                     /\ ~Live(cache, key[r], now)

\* C18: in every reachable state and for every key, a live fresh entry has a
\* live stale entry beside it holding the same value.
C18_FreshImpliesStale ==
  \A r \in Reqs :
    (key[r] # NoKey /\ Live(cache, key[r], now)) =>
      /\ Live(cache, StaleKey(key[r]), now)
      /\ cache[StaleKey(key[r])].v = cache[key[r]].v

C18_Witness ==
  \E r, s \in Reqs :
    /\ r # s /\ key[r] = key[s] /\ Answered(r) /\ Answered(s)
    /\ responses[r][1].xcache = "MISS" /\ responses[s][1].xcache = "MISS"
    /\ responses[r][1].body # responses[s][1].body
    /\ Live(cache, key[r], now)

\* C19: the STALE body holds every field of the stale value with its original
\* content and exactly one field more, the warning.
C19_StaleBodyKeepsValue ==
  [][ \A r \in Reqs :
        (AnsweredNow(r) /\ responses'[r][1].xcache = "STALE") =>
          LET stale == cache[StaleKey(key[r])].v
              body == responses'[r][1].body
          IN /\ stale.kind = "object" /\ body.kind = "object"
             /\ \A f \in DOMAIN stale.val :
                  f \in DOMAIN body.val /\ body.val[f] = stale.val[f]
             /\ Cardinality(DOMAIN body.val) = Cardinality(DOMAIN stale.val) + 1 ]_vars

====
